---- MODULE Spec2Model ----
(***************************************************************************)
(* The Iris prediction service, in its two variants:                       *)
(*   src/app.py     loads the model from a local cache or from GCS         *)
(*   src/deploy.py  loads the model from disk; health checks, timing       *)
(*                  middleware, structured logging, trace ids              *)
(* One behaviour runs one variant.  Floating-point numbers are written in  *)
(* tenths (20 stands for 2.0, 17 for 1.7).  Python values whose type the   *)
(* code inspects are tagged records ([t |-> "str", v |-> ...]).            *)
(***************************************************************************)
EXTENDS Integers, Sequences, FiniteSets, TLC

\* ------------------------------------------------------------------ bounds
\* Requests served in one behaviour.
MaxRequests == 2
\* Process starts in one behaviour (app.py runs under uvicorn's reload).
MaxStarts == 2
\* Largest elapsed time, in milliseconds, a clock reading yields.
MaxMs == 1

\* ------------------------------------------------------------ Python values
Str(s) == [t |-> "str", v |-> s]
IntV(n) == [t |-> "int", v |-> n]
\* a float, in tenths
FloatV(n) == [t |-> "float", v |-> n]
NoneV == [t |-> "none", v |-> 0]

Digits == <<"0", "1", "2", "3", "4", "5", "6", "7", "8", "9">>
IsDigit(c) == \E i \in 1..Len(Digits) : Digits[i] = c
DigitVal(c) == (CHOOSE i \in 1..Len(Digits) : Digits[i] = c) - 1

\* str(n) of a Python int
RECURSIVE NatStr(_)
NatStr(n) == IF n < 10 THEN Digits[n + 1]
             ELSE NatStr(n \div 10) \o Digits[(n % 10) + 1]
IntStr(n) == IF n < 0 THEN "-" \o NatStr(-n) ELSE NatStr(n)

\* str(x) of a Python float x given in tenths: "1.7", "3.0", "-0.5"
FloatStr(n) ==
    LET a == IF n < 0 THEN -n ELSE n
    IN  (IF n < 0 THEN "-" ELSE "")
           \o NatStr(a \div 10) \o "." \o Digits[(a % 10) + 1]

\* str(v) of a tagged value
PyStr(x) ==
    CASE x.t = "str" -> x.v
      [] x.t = "int" -> IntStr(x.v)
      [] x.t = "float" -> FloatStr(x.v)
      [] OTHER -> "None"

\* int(v): truncation toward zero for a float; raises on None
PyIntOk(x) == x.t \in {"int", "float"}
PyInt(x) ==
    CASE x.t = "int" -> x.v
      [] x.t = "float" ->
            IF x.v < 0 THEN -((-x.v) \div 10) ELSE x.v \div 10
PyIntError(x) ==
    "int() argument must be a string, a bytes-like object or a real number, not 'NoneType'"

\* the text h contains the text n
Contains(h, n) ==
    \E i \in 1..(Len(h) - Len(n) + 1) : SubSeq(h, i, i + Len(n) - 1) = n

\* ----------------------------------------------------------- request bodies
FieldNames == <<"sepal_length", "sepal_width", "petal_length", "petal_width">>

\* A decimal literal "d+" or "d+.d" read as a float in tenths.
AllDigits(s) == Len(s) > 0 /\ \A i \in 1..Len(s) : IsDigit(SubSeq(s, i, i))
RECURSIVE DigitsVal(_)
DigitsVal(s) ==
    IF Len(s) = 0 THEN 0
    ELSE DigitsVal(SubSeq(s, 1, Len(s) - 1)) * 10
            + DigitVal(SubSeq(s, Len(s), Len(s)))
IsDecimal(s) ==
    \/ AllDigits(s)
    \/ /\ Len(s) >= 3
       /\ SubSeq(s, Len(s) - 1, Len(s) - 1) = "."
       /\ AllDigits(SubSeq(s, 1, Len(s) - 2))
       /\ IsDigit(SubSeq(s, Len(s), Len(s)))
DecimalVal(s) ==
    IF AllDigits(s) THEN DigitsVal(s) * 10
    ELSE DigitsVal(SubSeq(s, 1, Len(s) - 2)) * 10
            + DigitVal(SubSeq(s, Len(s), Len(s)))

\* pydantic's float field: a JSON number, or a string holding a number
FloatFieldOk(x) ==
    \/ x.t \in {"int", "float"}
    \/ x.t = "str" /\ IsDecimal(x.v)
FloatField(x) ==
    CASE x.t = "int" -> x.v * 10
      [] x.t = "float" -> x.v
      [] x.t = "str" -> DecimalVal(x.v)

\* tenths of the field values of a validated body, in the schema's order
Fields(body) == [i \in 1..Len(FieldNames) |-> FloatField(body[FieldNames[i]])]

\* the fields of a body that are missing or do not parse as a float
FieldErrors(body) ==
    {FieldNames[i] : i \in {j \in 1..Len(FieldNames) :
        \/ FieldNames[j] \notin DOMAIN body
        \/ ~FloatFieldOk(body[FieldNames[j]])}}

\* {2.0, 0.5, 1.0, 0.2}
BodyPlain ==
    [sepal_length |-> FloatV(20), sepal_width |-> FloatV(5),
     petal_length |-> FloatV(10), petal_width |-> FloatV(2)]
\* numbers given as a JSON integer and as a numeric string
BodyCoerced ==
    [sepal_length |-> Str("5.1"), sepal_width |-> IntV(3),
     petal_length |-> FloatV(14), petal_width |-> FloatV(2)]
\* petal_width is missing
BodyMissing ==
    [sepal_length |-> FloatV(20), sepal_width |-> FloatV(5),
     petal_length |-> FloatV(10)]
\* petal_width is not a number
BodyNonNumeric ==
    [sepal_length |-> FloatV(20), sepal_width |-> FloatV(5),
     petal_length |-> FloatV(10), petal_width |-> Str("abc")]
Bodies == {BodyPlain, BodyCoerced, BodyMissing, BodyNonNumeric}
NoBody == [none |-> TRUE]

WellFormed(body) == body \in Bodies /\ FieldErrors(body) = {}

\* a body read without the schema: a field that is missing or not a number
\* counts as 0.0
ZeroFilled(body) ==
    [i \in 1..Len(FieldNames) |->
        IF FieldNames[i] \in DOMAIN body /\ FloatFieldOk(body[FieldNames[i]])
        THEN FloatField(body[FieldNames[i]]) ELSE 0]
\* the vectors the models below are defined on
FeatureVectors == {ZeroFilled(b) : b \in Bodies}

\* ------------------------------------------------------- the model artifact
\* What model.predict(X)[0] does: returns a raw label or raises.
Returns(raw) == [t |-> "return", raw |-> raw]
Raises(msg) == [t |-> "raise", msg |-> msg]

RawLabels ==
    {Str("setosa"), Str("rose"), IntV(0), IntV(1), IntV(2), IntV(3),
     FloatV(17), FloatV(35), NoneV}
ExceptionTexts == {"boom", "db password=hunter2"}
Outcomes == {Returns(r) : r \in RawLabels} \cup {Raises(m) : m \in ExceptionTexts}

\* the value None
None == [kind |-> "none"]
\* A model is deterministic: a function of the feature vector.
ModelOf(f) == [kind |-> "model", f |-> f]
Models ==
    {ModelOf([X \in FeatureVectors |-> o]) : o \in Outcomes}
      \cup {ModelOf([X \in FeatureVectors |->
                IF X = Fields(BodyPlain) THEN Returns(IntV(0)) ELSE Raises("boom")])}
\* what a pickle file can hold
Objects == {None} \cup Models

\* the content of a file
Absent == [kind |-> "absent"]
Corrupt == [kind |-> "corrupt"]
Pickle(obj) == [kind |-> "pickle", obj |-> obj]
Files == {Corrupt} \cup {Pickle(o) : o \in Objects}
\* what the download of the blob yields
FetchFailed == [kind |-> "fetch_failed"]
RemoteOutcomes == {FetchFailed} \cup Files

\* ------------------------------------------------------------------- state
VARIABLES
    variant,      \* "app" (src/app.py) or "deploy" (src/deploy.py)
    phase,        \* "starting" until the startup handler has run, then "serving"
    model,        \* the module global `model`
    app_state,    \* deploy.py's app_state dictionary
    cache,        \* the content of the file models/model.pkl
    key_present,  \* whether the service account key file exists
    request,      \* the request handled last
    response,     \* the response to it
    invoked,      \* whether handling it called model.predict
    log,          \* what deploy.py's logger has emitted
    nreq,         \* requests handled
    starts,       \* startup handlers run
    fetches,      \* downloads of the blob attempted
    downloaded,   \* what the last attempted download yielded
    cred_checks   \* lookups of the service account key file

vars == <<variant, phase, model, app_state, cache, key_present, request, response,
          invoked, log, nreq, starts, fetches, downloaded, cred_checks>>

\* trace_id: the id of the span opened for the request, "" when none is
NoRequest == [route |-> "none", body |-> NoBody, trace_id |-> ""]
Request(route, body, trace_id) == [route |-> route, body |-> body, trace_id |-> trace_id]
NoResponse == [status |-> 0, body |-> NoBody, headers |-> {}]

\* --------------------------------------------------------------- responses
\* What FastAPI sends for a returned dictionary, for a raised HTTPException and
\* for a body that fails the schema.
JSON(content) == [status |-> 200, body |-> content, headers |-> {}]
HTTPException(status_code, detail) ==
    [status |-> status_code, body |-> [detail |-> detail], headers |-> {}]
RequestValidationError(errors) ==
    [status |-> 422, body |-> [detail |-> errors], headers |-> {}]
NotFound == [status |-> 404, body |-> [detail |-> "Not Found"], headers |-> {}]
Response(status_code) == [status |-> status_code, body |-> NoBody, headers |-> {}]

\* ------------------------------------------------------------ src/app.py
IrisInput_errors(body) == FieldErrors(body)
IrisInput(body) == Fields(body)

\* joblib.load: the object the file holds, or an exception
joblib_load(file) ==
    IF file.kind = "pickle" THEN [ok |-> TRUE, obj |-> file.obj, err |-> ""]
    ELSE IF file.kind = "absent"
         THEN [ok |-> FALSE, obj |-> None,
               err |-> "[Errno 2] No such file or directory: 'models/model.pkl'"]
         ELSE [ok |-> FALSE, obj |-> None, err |-> "invalid load key"]

\* download_model_from_gcs, given whether the key file exists, what the
\* download yields and whether a failed download leaves a partial file behind.
download_model_from_gcs(key, remote, partial) ==
    IF ~key
    THEN [ok |-> FALSE, cache |-> Absent, fetched |-> 0, cred |-> 1,
          err |-> "Service account JSON 'github-dvc-key.json' not found in current dir."]
    ELSE IF remote = FetchFailed
    THEN [ok |-> FALSE, cache |-> IF partial THEN Corrupt ELSE Absent,
          fetched |-> 1, cred |-> 1, err |-> "download failed"]
    ELSE [ok |-> TRUE, cache |-> remote, fetched |-> 1, cred |-> 1, err |-> ""]

\* load_model without the test for the cached file: every load downloads
load_model_always_download(c, key, remote, partial) ==
    LET d == download_model_from_gcs(key, remote, partial)
        j == joblib_load(d.cache)
    IN  IF ~d.ok
        THEN [ok |-> FALSE, mdl |-> None, cache |-> d.cache,
              fetched |-> d.fetched, cred |-> d.cred, err |-> d.err]
        ELSE [ok |-> j.ok, mdl |-> j.obj, cache |-> d.cache,
              fetched |-> d.fetched, cred |-> d.cred, err |-> j.err]

\* load_model on a disk whose cache file holds c
load_model(c, key, remote, partial) ==
    LET d == IF c = Absent
             THEN download_model_from_gcs(key, remote, partial)
             ELSE [ok |-> TRUE, cache |-> c, fetched |-> 0, cred |-> 0, err |-> ""]
        j == joblib_load(d.cache)
    IN  IF ~d.ok
        THEN [ok |-> FALSE, mdl |-> None, cache |-> d.cache,
              fetched |-> d.fetched, cred |-> d.cred, err |-> d.err]
        ELSE [ok |-> j.ok, mdl |-> j.obj, cache |-> d.cache,
              fetched |-> d.fetched, cred |-> d.cred, err |-> j.err]

\* label_map with two names exchanged
label_map_exchanged ==
    [i \in {0, 1, 2} |-> <<"setosa", "virginica", "versicolor">>[i + 1]]

label_map == [i \in {0, 1, 2} |-> <<"setosa", "versicolor", "virginica">>[i + 1]]

\* the label normalisation of app.py's predict (y_pred is a label int() accepts
\* or a string)
app_species(y_pred) ==
    IF y_pred.t = "str" THEN y_pred.v
    ELSE IF PyInt(y_pred) \in DOMAIN label_map THEN label_map[PyInt(y_pred)]
    ELSE "unknown"

\* the body of app.py's predict: the response, and whether model.predict ran
app_predict_handler(mdl, features) ==
    IF mdl = None
    THEN [resp |-> HTTPException(503, "Model not loaded. Try again later."),
          invoked |-> FALSE]
    ELSE LET out == mdl.f[features]
         IN  IF out.t = "raise"
             THEN [resp |-> HTTPException(500, "Prediction failed: " \o out.msg),
                   invoked |-> TRUE]
             ELSE IF out.raw.t # "str" /\ ~PyIntOk(out.raw)
             THEN [resp |-> HTTPException(500,
                                "Prediction failed: " \o PyIntError(out.raw)),
                   invoked |-> TRUE]
             ELSE [resp |-> JSON([status |-> "success",
                                  predicted_label |-> out.raw,
                                  species |-> app_species(out.raw)]),
                   invoked |-> TRUE]

\* POST /predict of app.py with the parameter declared as a plain dictionary:
\* no schema is applied and the handler reads the fields itself
app_predict_route_unvalidated(mdl, body) ==
    app_predict_handler(mdl, ZeroFilled(body))

\* POST /predict of app.py: the schema is checked before the handler runs
app_predict_route(mdl, body) ==
    IF IrisInput_errors(body) # {}
    THEN [resp |-> RequestValidationError(IrisInput_errors(body)), invoked |-> FALSE]
    ELSE app_predict_handler(mdl, IrisInput(body))

\* --------------------------------------------------------- src/deploy.py
Input_errors(body) == FieldErrors(body)
Input(body) == Fields(body)

SPECIES_MAP == [i \in {0, 1, 2} |-> <<"setosa", "versicolor", "virginica">>[i + 1]]

\* format(n, "032x")
HexDigits == Digits \o <<"a", "b", "c", "d", "e", "f">>
RECURSIVE Hex(_)
Hex(n) == IF n < 16 THEN HexDigits[n + 1] ELSE Hex(n \div 16) \o HexDigits[(n % 16) + 1]
RECURSIVE ZeroPad(_, _)
ZeroPad(s, width) == IF Len(s) >= width THEN s ELSE ZeroPad("0" \o s, width)
Hex032(n) == ZeroPad(Hex(n), 32)

\* One line of the logger: the record's level and its message (the formatter's
\* timestamp is left out).  json.dumps of a dictionary is written as the record.
\* A plain text t is written [text |-> t].
logger_info(message) == [severity |-> "INFO", message |-> message]
logger_exception(message) == [severity |-> "ERROR", message |-> message]

\* the label normalisation of deploy.py's predict
deploy_species(raw_pred) ==
    IF raw_pred.t = "str" THEN raw_pred.v
    ELSE IF PyInt(raw_pred) \in DOMAIN SPECIES_MAP THEN SPECIES_MAP[PyInt(raw_pred)]
    ELSE PyStr(raw_pred)

\* the except branch of deploy.py's predict
deploy_predict_error(trace_id, text, ran) ==
    [resp |-> HTTPException(500, "Prediction failed"),
     invoked |-> ran,
     events |-> <<logger_exception([event |-> "prediction_error",
                                    trace_id |-> trace_id,
                                    error |-> text])>>]

\* the body of deploy.py's predict: the response, whether model.predict ran, and
\* the lines logged
deploy_predict_handler(mdl, features, trace_id, latency) ==
    IF mdl = None
    THEN deploy_predict_error(trace_id, "Model not loaded", FALSE)
    ELSE LET out == mdl.f[features]
         IN  IF out.t = "raise"
             THEN deploy_predict_error(trace_id, out.msg, TRUE)
             ELSE IF out.raw.t # "str" /\ ~PyIntOk(out.raw)
             THEN deploy_predict_error(trace_id, PyIntError(out.raw), TRUE)
             ELSE LET species == deploy_species(out.raw)
                      payload == [status |-> "success",
                                  predicted_label |-> species,
                                  species |-> species,
                                  latency_ms |-> latency,
                                  trace_id |-> trace_id]
                  IN  [resp |-> JSON(payload),
                       invoked |-> TRUE,
                       events |-> <<logger_info([event |-> "prediction",
                                                 trace_id |-> trace_id,
                                                 input |-> <<features>>,
                                                 output |-> payload,
                                                 latency_ms |-> latency,
                                                 status |-> "success"])>>]

\* POST /predict of deploy.py: the schema is checked before the handler runs
deploy_predict_route(mdl, body, trace_id, latency) ==
    IF Input_errors(body) # {}
    THEN [resp |-> RequestValidationError(Input_errors(body)),
          invoked |-> FALSE, events |-> <<>>]
    ELSE deploy_predict_handler(mdl, Input(body), trace_id, latency)

\* the middleware: every response that comes back through it gets the header
add_process_time_header(resp, duration) ==
    [resp EXCEPT !.headers = @ \cup {<<"X-Process-Time-ms", FloatStr(duration * 10)>>}]

\* The handler for exceptions that escape a route.  No route of deploy.py lets
\* one escape (predict catches Exception), so no action uses it.
exception_handler(trace_id, path, exc) ==
    [resp |-> [status |-> 500,
               body |-> [detail |-> "Internal Server Error", trace_id |-> trace_id],
               headers |-> {}],
     events |-> <<logger_exception([event |-> "unhandled_exception",
                                    trace_id |-> trace_id,
                                    path |-> path,
                                    error |-> exc])>>]

\* ------------------------------------------------------------------ actions
Init ==
    /\ variant \in {"app", "deploy"}
    /\ phase = "starting"
    /\ model = None
    /\ app_state = [is_ready |-> FALSE, is_alive |-> TRUE]
    /\ cache \in {Absent} \cup Files
    /\ key_present \in BOOLEAN
    /\ request = NoRequest
    /\ response = NoResponse
    /\ invoked = FALSE
    /\ log = <<>>
    /\ nreq = 0
    /\ starts = 0
    /\ fetches = 0
    /\ downloaded = Absent
    /\ cred_checks = 0

Serving(v) == variant = v /\ phase = "serving" /\ nreq < MaxRequests

\* what a request leaves alone
RequestFrame ==
    UNCHANGED <<variant, phase, model, app_state, cache, key_present, starts,
                fetches, downloaded, cred_checks>>

\* app.py: the startup handler
on_startup ==
    /\ variant = "app" /\ phase = "starting"
    /\ \E remote \in RemoteOutcomes, partial \in BOOLEAN :
          LET r == load_model(cache, key_present, remote, partial)
          IN  /\ model' = IF r.ok THEN r.mdl ELSE None
              /\ cache' = r.cache
              /\ fetches' = fetches + r.fetched
              /\ downloaded' = IF r.fetched > 0 THEN remote ELSE downloaded
              /\ cred_checks' = cred_checks + r.cred
    /\ phase' = "serving"
    /\ starts' = starts + 1
    /\ UNCHANGED <<variant, app_state, key_present, request, response, invoked,
                   log, nreq>>

\* app.py: GET /
root ==
    /\ Serving("app")
    /\ request' = Request("/", NoBody, "")
    /\ response' = JSON([message |-> "Iris Species Prediction API is running."])
    /\ invoked' = FALSE
    /\ nreq' = nreq + 1
    /\ UNCHANGED log
    /\ RequestFrame

\* app.py: POST /predict
app_predict ==
    /\ Serving("app")
    /\ \E body \in Bodies :
          LET r == app_predict_route(model, body)
          IN  /\ request' = Request("/predict", body, "")
              /\ response' = r.resp
              /\ invoked' = r.invoked
    /\ nreq' = nreq + 1
    /\ UNCHANGED log
    /\ RequestFrame

\* app.py: a path it has no route for
app_not_found ==
    /\ Serving("app")
    /\ \E route \in {"/live_check", "/ready_check"} :
          request' = Request(route, NoBody, "")
    /\ response' = NotFound
    /\ invoked' = FALSE
    /\ nreq' = nreq + 1
    /\ UNCHANGED log
    /\ RequestFrame

\* app.py is run with reload=True: the server process is started again, with
\* the disk as the last process left it.
uvicorn_run ==
    /\ variant = "app" /\ phase = "serving" /\ starts < MaxStarts
    /\ phase' = "starting"
    /\ model' = None
    /\ request' = NoRequest
    /\ response' = NoResponse
    /\ invoked' = FALSE
    /\ UNCHANGED <<variant, app_state, cache, key_present, log, nreq, starts,
                   fetches, downloaded, cred_checks>>

\* startup_event with is_ready set before the load and not reset when it fails
startup_event_result_ready_first(mdl, file) ==
    LET j == joblib_load(file)
    IN  [model |-> IF j.ok THEN j.obj ELSE mdl, is_ready |-> TRUE,
         events |-> <<logger_info([text |-> "Loading model from models/model.pkl ..."])>>]

\* deploy.py: what the startup handler computes from the file models/model.pkl
startup_event_result(mdl, file) ==
    LET j == joblib_load(file)
    IN  IF j.ok
        THEN [model |-> j.obj, is_ready |-> TRUE,
              events |-> <<logger_info([text |-> "Loading model from models/model.pkl ..."]),
                           logger_info([text |-> "Model loaded."])>>]
        ELSE [model |-> mdl, is_ready |-> FALSE,
              events |-> <<logger_info([text |-> "Loading model from models/model.pkl ..."]),
                           logger_exception([text |-> "Failed to load model: " \o j.err])>>]

\* deploy.py: the startup handler
startup_event ==
    /\ variant = "deploy" /\ phase = "starting"
    /\ LET r == startup_event_result(model, cache)
       IN  /\ model' = r.model
           /\ app_state' = [app_state EXCEPT !.is_ready = r.is_ready]
           /\ log' = log \o r.events
    /\ phase' = "serving"
    /\ starts' = starts + 1
    /\ UNCHANGED <<variant, cache, key_present, request, response, invoked, nreq,
                   fetches, downloaded, cred_checks>>

\* deploy.py: GET /live_check
live_check ==
    /\ Serving("deploy")
    /\ \E duration \in 0..MaxMs :
          response' = add_process_time_header(
                          IF app_state["is_alive"] THEN JSON([status |-> "alive"])
                          ELSE Response(500), duration)
    /\ request' = Request("/live_check", NoBody, "")
    /\ invoked' = FALSE
    /\ nreq' = nreq + 1
    /\ UNCHANGED log
    /\ RequestFrame

\* deploy.py: GET /ready_check
ready_check ==
    /\ Serving("deploy")
    /\ \E duration \in 0..MaxMs :
          response' = add_process_time_header(
                          IF app_state["is_ready"] THEN JSON([status |-> "ready"])
                          ELSE Response(503), duration)
    /\ request' = Request("/ready_check", NoBody, "")
    /\ invoked' = FALSE
    /\ nreq' = nreq + 1
    /\ UNCHANGED log
    /\ RequestFrame

\* deploy.py's predict, marking the service not ready when a prediction fails
deploy_predict_trips_readiness ==
    /\ Serving("deploy")
    /\ \E body \in Bodies, latency \in 0..MaxMs :
          \E duration \in latency..MaxMs :
              LET trace_id == Hex032(nreq + 1)
                  r == deploy_predict_route(model, body, trace_id, latency)
              IN  /\ request' = Request("/predict", body,
                                        IF Input_errors(body) = {} THEN trace_id ELSE "")
                  /\ response' = add_process_time_header(r.resp, duration)
                  /\ invoked' = r.invoked
                  /\ log' = log \o r.events
                  /\ app_state' = IF r.resp.status = 500
                                  THEN [app_state EXCEPT !.is_ready = FALSE]
                                  ELSE app_state
    /\ nreq' = nreq + 1
    /\ UNCHANGED <<variant, phase, model, cache, key_present, starts, fetches,
                   downloaded, cred_checks>>

\* deploy.py: POST /predict, inside the middleware
deploy_predict ==
    /\ Serving("deploy")
    /\ \E body \in Bodies, latency \in 0..MaxMs :
          \E duration \in latency..MaxMs :
              LET trace_id == Hex032(nreq + 1)
                  r == deploy_predict_route(model, body, trace_id, latency)
              IN  /\ request' = Request("/predict", body,
                                        IF Input_errors(body) = {} THEN trace_id ELSE "")
                  /\ response' = add_process_time_header(r.resp, duration)
                  /\ invoked' = r.invoked
                  /\ log' = log \o r.events
    /\ nreq' = nreq + 1
    /\ RequestFrame

\* deploy.py: a path it has no route for
deploy_not_found ==
    /\ Serving("deploy")
    /\ \E duration \in 0..MaxMs :
          response' = add_process_time_header(NotFound, duration)
    /\ request' = Request("/", NoBody, "")
    /\ invoked' = FALSE
    /\ nreq' = nreq + 1
    /\ UNCHANGED log
    /\ RequestFrame

Next ==
    \/ on_startup
    \/ root
    \/ app_predict
    \/ app_not_found
    \/ uvicorn_run
    \/ startup_event
    \/ live_check
    \/ ready_check
    \/ deploy_predict
    \/ deploy_not_found

Spec == Init /\ [][Next]_vars

\* ------------------------------------------------------------------ claims
\* the last request was a POST /predict that the running process answered
PredictServed == phase = "serving" /\ request.route = "/predict"
\* ... with a body that passes the schema
PredictAttempted == PredictServed /\ WellFormed(request.body)
\* what model.predict does on the last request's features (model is loaded)
Outcome == model.f[Fields(request.body)]
\* the startup load raised
LoadFailed == ~joblib_load(cache).ok
HasHeader(resp, name) == \E h \in resp.headers : h[1] = name
SpeciesNames == {"setosa", "versicolor", "virginica"}

\* C1: if the load fails at startup the process keeps serving with the model
\* unset and readiness false, POST /predict with a well-formed body answers
\* 503, GET /ready_check answers 503 and GET /live_check answers alive.
C1_DegradedRefusesWith503 ==
    (phase = "serving" /\ LoadFailed) =>
        /\ model = None
        /\ (variant = "deploy" => ~app_state["is_ready"])
        /\ (PredictAttempted => response.status = 503)
        /\ (variant = "deploy" /\ request.route = "/ready_check"
                => response.status = 503)
        /\ (variant = "deploy" /\ request.route = "/live_check"
                => response.status = 200 /\ response.body = [status |-> "alive"])

\* C2: when the loaded model raises during predict, POST /predict answers 500
\* with a fixed generic message and the exception's text is not in the body.
GenericMessages == {"Prediction failed", "Internal Server Error"}
C2_ErrorTextNotExposed ==
    (PredictAttempted /\ model # None /\ Outcome.t = "raise") =>
        /\ response.status = 500
        /\ response.body.detail \in GenericMessages
        /\ ~Contains(response.body.detail, Outcome.msg)

SpeciesRules(raw, species) ==
    /\ species \in SpeciesNames \cup {"unknown", PyStr(raw)}
    /\ (raw.t = "str" => species = raw.v)
    /\ (raw.t # "str" /\ PyInt(raw) = 0 => species = "setosa")
    /\ (raw.t # "str" /\ PyInt(raw) = 1 => species = "versicolor")
    /\ (raw.t # "str" /\ PyInt(raw) = 2 => species = "virginica")

C5_RequestsLeaveStateAlone ==
    [][(phase = "serving" /\ phase' = "serving")
          => (model' = model /\ app_state' = app_state)]_vars

\* C5 witness: a ready deploy.py has answered two requests, the last a failed
\* prediction, and is still ready
C5_Witness ==
    /\ variant = "deploy" /\ phase = "serving" /\ nreq >= 2
    /\ app_state["is_ready"] /\ model # None
    /\ PredictAttempted /\ response.status = 500

\* C6: a body with a missing or non-numeric field gets a 4xx answer and
\* model.predict is not called for it, whether or not the model is loaded.
C6_MalformedBodyRejected ==
    (PredictServed /\ ~WellFormed(request.body)) =>
        /\ response.status \in 400..499
        /\ ~invoked

\* C6 witness: a loaded model, a body with a non-numeric field, a 422
C6_Witness ==
    /\ PredictServed /\ model # None
    /\ request.body = BodyNonNumeric
    /\ response.status = 422

\* C7: load_model downloads only when the cache file is absent; a download
\* that succeeds leaves the downloaded bytes in the cache file; and from then
\* on no load downloads or looks for the key file.
C7_FetchOnlyWhenCacheAbsent ==
    [][/\ (fetches' # fetches => cache = Absent)
       /\ (fetches' # fetches /\ downloaded' # FetchFailed => cache' = downloaded')
       /\ (cache # Absent =>
              cache' = cache /\ fetches' = fetches /\ cred_checks' = cred_checks)]_vars

\* C7 witness: the second start of app.py loaded from the cache the first
\* start downloaded
C7_Witness ==
    /\ variant = "app" /\ phase = "serving" /\ starts = 2
    /\ fetches = 1 /\ cred_checks = 1 /\ cache = downloaded /\ model # None

\* the structured events logged for the last request
EventsOfRequest ==
    {i \in 1..Len(log) :
        /\ "trace_id" \in DOMAIN log[i].message
        /\ log[i].message.trace_id = request.trace_id}

\* C8: every prediction attempt, successful or not, is recorded as exactly
\* one structured event carrying the request's trace id and its status.
C8_OneEventPerAttempt ==
    PredictAttempted =>
        /\ request.trace_id # ""
        /\ Cardinality(EventsOfRequest) = 1
        /\ \A i \in EventsOfRequest : "status" \in DOMAIN log[i].message

\* C9: every response carries a header or a field with the processing time
\* in milliseconds.
C9_EveryResponseTimed ==
    (phase = "serving" /\ request.route # "none") =>
        \/ HasHeader(response, "X-Process-Time-ms")
        \/ "latency_ms" \in DOMAIN response.body

\* C10: for a non-string raw label whose integer value is outside {0, 1, 2}
\* app.py and deploy.py answer the same species.
C10_SameFallbackSpecies ==
    (/\ PredictAttempted /\ model # None
     /\ Outcome.t = "return" /\ Outcome.raw.t # "str" /\ PyIntOk(Outcome.raw)
     /\ PyInt(Outcome.raw) \notin {0, 1, 2}) =>
        /\ response.body.species = app_species(Outcome.raw)
        /\ response.body.species = deploy_species(Outcome.raw)
====
